---- MODULE Spec2Model ----
(***************************************************************************)
(* Differential-drive control of the rover.                                *)
(*                                                                         *)
(* rover_server.py : asyncio tank-drive controller (StepperMotor,          *)
(*                   RoverMotorController) driven by an event loop.        *)
(* WebRover_3.py   : thread-based controller (move_rover, move_motor,      *)
(*                   stop_all_threads, stop_motors).                       *)
(*                                                                         *)
(* Speeds are floats in the source; here they are integers in hundredths   *)
(* (1.0 = 100, the 0.1 deadzone = 10), which keeps every comparison of the *)
(* source exact.                                                           *)
(***************************************************************************)
EXTENDS Integers, Sequences, FiniteSets, TLC

VARIABLES
    prog,           \* which program of the repository is running
    \* ---- rover_server.py
    motor,          \* the two StepperMotor objects: current_step, is_running,
                    \* current_speed (hundredths) and the levels of the four pins
    ctl_task,       \* RoverMotorController.left_task / right_task (0 = None)
    tasks,          \* every asyncio task created so far, by id
    ready,          \* the event loop's FIFO of ready handles (task ids)
    ticks,          \* sleep timers expired so far
    hist,           \* history: the calls made on the controller, in order
    ev,             \* history: the last thing that happened
    \* ---- WebRover_3.py
    current_threads,    \* the global list of motor threads (thread ids)
    thread_stop_flags,  \* the global list of stop-flag dicts (by thread id)
    thr,            \* every move_motor thread created so far, by id
    gpio,           \* level of the four GPIO pins of each motor
    handler,        \* the socket handlers: what each is executing, and where
    wcalls,         \* handler invocations so far
    written,        \* history: the last step pattern written to each motor's
                    \* pins, where the run keeps it (Low: none)
    nwrites,        \* history: for each thread, the step count it was created
                    \* for and the patterns it has written, where the run
                    \* keeps them
    \* ---- WebRover_3.py, handle_controller_data
    frame,          \* the controller_data frame received (NoFrame before)
    result,         \* what handle_controller_data did with it
    \* ---- functions of WebRover_3.py taken alone
    call,           \* the function applied and its arguments (NoCall before)
    ret             \* the value it returned

rsvars == <<motor, ctl_task, tasks, ready, ticks, hist, ev>>
wrvars == <<current_threads, thread_stop_flags, thr, gpio, handler, wcalls>>
cdvars == <<frame, result, call, ret>>
vars == <<prog, rsvars, wrvars, cdvars, written, nwrites>>

-----------------------------------------------------------------------------
(* Bounds of the model *)
MaxCalls == 2
MaxTicks == 1
MaxWCalls == 2

-----------------------------------------------------------------------------
(* rover_server.py *)

Motors == {"left", "right"}
None == 0
Low == <<0, 0, 0, 0>>

Abs(x) == IF x < 0 THEN -x ELSE x

right_pins_sharing == <<5, 6, 13, 22>>

\* RoverWebServer.__init__: the BCM pins of the two motors
left_pins == <<17, 18, 27, 22>>
right_pins == <<5, 6, 13, 19>>

\* StepperMotor.pins
PinsOf(m) == IF m = "left" THEN left_pins ELSE right_pins

STEP_SEQUENCE ==
    << <<1, 0, 0, 0>>,
       <<1, 1, 0, 0>>,
       <<0, 1, 0, 0>>,
       <<0, 1, 1, 0>>,
       <<0, 0, 1, 0>>,
       <<0, 0, 1, 1>>,
       <<0, 0, 0, 1>>,
       <<1, 0, 0, 1>> >>

\* the deadzone of run_at_speed, 0.1
RunDeadzone == 10

InDeadzoneNever(speed) == FALSE

InDeadzoneAtRestOnly(speed) == speed = 0

\* run_at_speed: `if abs(speed) < 0.1:'
InDeadzone(speed) == Abs(speed) < RunDeadzone

\* (left, right) speeds offered to set_tank_drive: inside the deadzone, on its
\* edge (0.1, both signs), and beyond it in both directions
TankInputs == {<<5, 10>>, <<-10, 0>>, <<50, -100>>, <<-100, 50>>}

Commands == {"forward", "backward", "left", "right", "stop", "other"}

Event(op, t, m) == [op |-> op, task |-> t, motor |-> m]
\* a call as history keeps it: n tasks existed, q tells whether every task
\* handed to the event loop had run, step is each motor's index at the call
Call(op, cmd, l, r) ==
    [op |-> op, cmd |-> cmd, l |-> l, r |-> r, n |-> Len(tasks),
     q |-> (ready = <<>>), step |-> [m \in Motors |-> motor[m].current_step]]

\* StepperMotor.__init__ where RPi.GPIO could not be imported (GPIO = None):
\* setup_gpio does nothing
NewMotorNoGPIO == [current_step |-> 0, is_running |-> FALSE, current_speed |-> 0,
                   pins |-> Low]

\* StepperMotor.__init__.  `sim' is the same motor object as it is in the run
\* of the same program without hardware (GPIO = None), which is taken through
\* the same calls.
NewMotor == [current_step |-> 0, is_running |-> FALSE, current_speed |-> 0,
             pins |-> Low, sim |-> NewMotorNoGPIO]

\* StepperMotor.stop with GPIO = None: `if GPIO:' skips the writes
StopNoGPIO(S) == [S EXCEPT !.is_running = FALSE, !.current_speed = 0]

MotorStopKeepsCoils(M) ==
    [M EXCEPT !.is_running = FALSE, !.current_speed = 0,
              !.sim = StopNoGPIO(M.sim)]

MotorStopResetsStep(M) ==
    [M EXCEPT !.is_running = FALSE, !.current_speed = 0, !.pins = Low,
              !.current_step = 0, !.sim = StopNoGPIO(M.sim)]

\* StepperMotor.stop
MotorStop(M) ==
    [M EXCEPT !.is_running = FALSE, !.current_speed = 0, !.pins = Low,
              !.sim = StopNoGPIO(M.sim)]

\* asyncio.Task.done()
Done(t) == t.st \in {"done", "cancelled", "failed"}

\* a task running StepperMotor.run_at_speed(speed) on motor m; `stepped'
\* records that the task has called step()
RunTask(m, speed) ==
    [coro |-> "run_at_speed", motor |-> m, speed |-> speed, l |-> 0, r |-> 0,
     st |-> "new", must_cancel |-> FALSE, stepped |-> FALSE]

\* a task running move_forward / move_backward / turn_left / turn_right
MoveTask(l, r) ==
    [coro |-> "move", motor |-> "none", speed |-> 0, l |-> l, r |-> r,
     st |-> "new", must_cancel |-> FALSE, stepped |-> FALSE]

\* asyncio.Task.cancel() on task t, on the pair S = [tasks, ready].
\* A task suspended in asyncio.sleep has its sleep future cancelled, which
\* schedules its wake-up; a task whose step is already scheduled (never
\* started, or woken by its timer) is only marked.  Either way the coroutine
\* is resumed with CancelledError.
TaskCancel(S, t) ==
    IF S.tasks[t].st = "sleeping"
    THEN [tasks |-> [S.tasks EXCEPT ![t].st = "woken", ![t].must_cancel = TRUE],
          ready |-> Append(S.ready, t)]
    ELSE [tasks |-> [S.tasks EXCEPT ![t].must_cancel = TRUE],
          ready |-> S.ready]

\* `if self.x_task and not self.x_task.done(): self.x_task.cancel()'
CancelTracked(S, t) ==
    IF t # None /\ ~Done(S.tasks[t]) THEN TaskCancel(S, t) ELSE S

\* asyncio.create_task(coro): the task is appended and its first step is
\* scheduled on the ready queue
CreateTask(S, task) ==
    [tasks |-> Append(S.tasks, task),
     ready |-> Append(S.ready, Len(S.tasks) + 1)]

SetTankDriveNoCancel(C, left_speed, right_speed) ==
    LET S0 == [tasks |-> C.tasks, ready |-> C.ready]
        S3 == CreateTask(S0, RunTask("left", left_speed))
        S4 == CreateTask(S3, RunTask("right", right_speed))
    IN  [tasks |-> S4.tasks, ready |-> S4.ready,
         ctl |-> [left |-> Len(S3.tasks), right |-> Len(S4.tasks)]]

\* RoverMotorController.set_tank_drive on C = [tasks, ready, ctl]
SetTankDriveOn(C, left_speed, right_speed) ==
    LET S0 == [tasks |-> C.tasks, ready |-> C.ready]
        S1 == CancelTracked(S0, C.ctl["left"])
        S2 == CancelTracked(S1, C.ctl["right"])
        S3 == CreateTask(S2, RunTask("left", left_speed))
        S4 == CreateTask(S3, RunTask("right", right_speed))
    IN  [tasks |-> S4.tasks, ready |-> S4.ready,
         ctl |-> [left |-> Len(S3.tasks), right |-> Len(S4.tasks)]]

\* the task-cancelling half of RoverMotorController.stop
StopCancelOn(C) ==
    LET S0 == [tasks |-> C.tasks, ready |-> C.ready]
        S1 == CancelTracked(S0, C.ctl["left"])
        S2 == CancelTracked(S1, C.ctl["right"])
    IN  [tasks |-> S2.tasks, ready |-> S2.ready, ctl |-> C.ctl]

Ctl == [tasks |-> tasks, ready |-> ready, ctl |-> ctl_task]

CommandSpeedsMirrored(cmd) ==
    CASE cmd = "forward"  -> <<100, 100>>
      [] cmd = "backward" -> <<-100, -100>>
      [] cmd = "left"     -> <<50, -50>>
      [] cmd = "right"    -> <<-50, 50>>
      [] OTHER            -> <<0, 0>>

\* the (left, right) pair of move_forward / move_backward / turn_left / turn_right
CommandSpeeds(cmd) ==
    CASE cmd = "forward"  -> <<100, 100>>
      [] cmd = "backward" -> <<-100, -100>>
      [] cmd = "left"     -> <<-50, 50>>
      [] cmd = "right"    -> <<50, -50>>
      [] OTHER            -> <<0, 0>>

MotionCommandsAndOthers == {"forward", "backward", "left", "right", "other"}

\* the commands for which execute_command's if/elif chain creates a task
MotionCommands == {"forward", "backward", "left", "right"}

-----------------------------------------------------------------------------
(* Calls on the controller, made by message handlers between two handles of
   the event loop *)

SetTankDrive(l, r) ==
    /\ Len(hist) < MaxCalls
    /\ LET C == SetTankDriveOn(Ctl, l, r)
       IN  /\ tasks' = C.tasks
           /\ ready' = C.ready
           /\ ctl_task' = C.ctl
    /\ hist' = Append(hist, Call("set_tank_drive", "none", l, r))
    /\ ev' = Event("set_tank_drive", None, "none")
    /\ UNCHANGED <<motor, ticks>>

\* RoverMotorController.stop
Stop ==
    /\ Len(hist) < MaxCalls
    /\ motor' = [m \in Motors |-> MotorStop(motor[m])]
    /\ LET C == StopCancelOn(Ctl)
       IN  /\ tasks' = C.tasks
           /\ ready' = C.ready
           /\ ctl_task' = C.ctl
    /\ hist' = Append(hist, Call("stop", "none", 0, 0))
    /\ ev' = Event("stop", None, "none")
    /\ UNCHANGED ticks

\* RoverMotorController.execute_command: self.stop(), then the command's
\* coroutine is handed to asyncio.create_task (nothing for "stop" and for a
\* command the if/elif chain does not know)
ExecuteCommand(cmd) ==
    /\ Len(hist) < MaxCalls
    /\ motor' = [m \in Motors |-> MotorStop(motor[m])]
    /\ LET C == StopCancelOn(Ctl)
           S == IF cmd \in MotionCommands
                THEN CreateTask([tasks |-> C.tasks, ready |-> C.ready],
                                MoveTask(CommandSpeeds(cmd)[1], CommandSpeeds(cmd)[2]))
                ELSE [tasks |-> C.tasks, ready |-> C.ready]
       IN  /\ tasks' = S.tasks
           /\ ready' = S.ready
           /\ ctl_task' = C.ctl
    /\ hist' = Append(hist, Call("execute_command", cmd, CommandSpeeds(cmd)[1],
                                 CommandSpeeds(cmd)[2]))
    /\ ev' = Event("execute_command", None, "none")
    /\ UNCHANGED ticks

-----------------------------------------------------------------------------
(* The event loop *)

\* the timer of a task's asyncio.sleep(delay) expires: the sleep future gets
\* its result and the task's wake-up is scheduled
TimerFire(t) ==
    /\ tasks[t].st = "sleeping"
    /\ ticks < MaxTicks
    /\ ticks' = ticks + 1
    /\ tasks' = [tasks EXCEPT ![t].st = "woken"]
    /\ ready' = Append(ready, t)
    /\ ev' = Event("timer", t, tasks[t].motor)
    /\ UNCHANGED <<motor, ctl_task, hist>>

\* a cancelled task is resumed: CancelledError is thrown into the coroutine,
\* either before its first statement or at `await asyncio.sleep(delay)';
\* run_at_speed has no handler, so the task ends there
DeliverCancel ==
    /\ ready # <<>>
    /\ tasks[Head(ready)].must_cancel
    /\ tasks' = [tasks EXCEPT ![Head(ready)].st = "cancelled"]
    /\ ready' = Tail(ready)
    /\ ev' = Event("cancelled", Head(ready), tasks[Head(ready)].motor)
    /\ UNCHANGED <<motor, ctl_task, ticks, hist>>

StepIndexSaturating(i, direction) ==
    IF i + direction > 7 THEN 7 ELSE IF i + direction < 0 THEN 0 ELSE i + direction

StepIndexForwardOnly(i, direction) == (i + 1) % Len(STEP_SEQUENCE)

\* StepperMotor.step: the new index
StepIndex(i, direction) == (i + direction) % Len(STEP_SEQUENCE)

\* pin levels after the first k writes of pattern p over levels old
Written(old, p, k) == [i \in 1..4 |-> IF i <= k THEN p[i] ELSE old[i]]

\* run_at_speed: base_delay = 0.001, in microseconds
base_delay == 1000

\* run_at_speed: delay = base_delay / abs(speed), in whole microseconds
\* (speed is in hundredths)
Delay(speed) == (base_delay * 100) \div Abs(speed)

StepNoGPIOSkipsIndex(S, direction) == S

\* StepperMotor.step with GPIO = None: current_step moves, `if GPIO:' skips
\* the writes
StepNoGPIO(S, direction) ==
    [S EXCEPT !.current_step = StepIndex(S.current_step, direction)]

\* one iteration of `while self.is_running and abs(self.current_speed) > 0.1:
\*                       self.step(direction); await asyncio.sleep(delay)'
\* of task t on motor m, entered with the motor as M.  step() moves
\* current_step and writes the four pins, and the task sleeps; with `raises'
\* GPIO.output raises at some pin instead, and the exception, which nothing
\* in run_at_speed catches, ends the task.
LoopIteration(t, m, M, raises) ==
    LET direction == IF tasks[t].speed > 0 THEN 1 ELSE -1
        idx == StepIndex(M.current_step, direction)
        pat == STEP_SEQUENCE[idx + 1]
    IN  IF M.is_running /\ Abs(M.current_speed) > RunDeadzone
        THEN IF raises
             THEN \E k \in 0..3 :
                    /\ motor' = [motor EXCEPT ![m] =
                                    [M EXCEPT !.current_step = idx,
                                              !.pins = Written(M.pins, pat, k),
                                              !.sim = StepNoGPIO(M.sim, direction)]]
                    /\ tasks' = [tasks EXCEPT ![t].st = "failed", ![t].stepped = TRUE]
                    /\ ev' = Event("raise", t, m)
             ELSE /\ motor' = [motor EXCEPT ![m] =
                                    [M EXCEPT !.current_step = idx, !.pins = pat,
                                              !.sim = StepNoGPIO(M.sim, direction)]]
                  /\ tasks' = [tasks EXCEPT ![t].st = "sleeping", ![t].stepped = TRUE]
                  /\ ev' = Event("step", t, m)
        ELSE /\ ~raises
             /\ motor' = [motor EXCEPT ![m] = M]
             /\ tasks' = [tasks EXCEPT ![t].st = "done"]
             /\ ev' = Event("exit", t, m)

\* first step of a run_at_speed task: from the top to the first await or return
RunAtSpeedStart(raises) ==
    /\ ready # <<>>
    /\ ~tasks[Head(ready)].must_cancel
    /\ tasks[Head(ready)].coro = "run_at_speed"
    /\ tasks[Head(ready)].st = "new"
    /\ LET t == Head(ready)
           m == tasks[t].motor
           speed == tasks[t].speed
           M == [motor[m] EXCEPT !.current_speed = speed, !.is_running = TRUE,
                                 !.sim.current_speed = speed,
                                 !.sim.is_running = TRUE]
       IN  IF InDeadzone(speed)
           THEN \* self.stop(); return
                /\ ~raises
                /\ motor' = [motor EXCEPT ![m] = MotorStop(M)]
                /\ tasks' = [tasks EXCEPT ![t].st = "done"]
                /\ ev' = Event("deadzone", t, m)
           ELSE LoopIteration(t, m, M, raises)
    /\ ready' = Tail(ready)
    /\ UNCHANGED <<ctl_task, ticks, hist>>

\* a run_at_speed task resumes after its sleep
RunAtSpeedResume(raises) ==
    /\ ready # <<>>
    /\ ~tasks[Head(ready)].must_cancel
    /\ tasks[Head(ready)].coro = "run_at_speed"
    /\ tasks[Head(ready)].st = "woken"
    /\ LoopIteration(Head(ready), tasks[Head(ready)].motor,
                     motor[tasks[Head(ready)].motor], raises)
    /\ ready' = Tail(ready)
    /\ UNCHANGED <<ctl_task, ticks, hist>>

\* a move_forward / move_backward / turn_left / turn_right task runs:
\* self.set_tank_drive(l, r)
MoveRun ==
    /\ ready # <<>>
    /\ ~tasks[Head(ready)].must_cancel
    /\ tasks[Head(ready)].coro = "move"
    /\ LET t == Head(ready)
           C0 == [tasks |-> [tasks EXCEPT ![t].st = "done"],
                  ready |-> Tail(ready), ctl |-> ctl_task]
           C == SetTankDriveOn(C0, tasks[t].l, tasks[t].r)
       IN  /\ tasks' = C.tasks
           /\ ready' = C.ready
           /\ ctl_task' = C.ctl
           /\ ev' = Event("move", t, "none")
    /\ UNCHANGED <<motor, ticks, hist>>

-----------------------------------------------------------------------------

\* RoverWebServer.run, the finally block: web.run_app has returned, which it
\* does with every task of the loop cancelled and the loop closed, and
\* cleanup() calls motor_controller.stop()
Cleanup ==
    /\ ev.op # "cleanup"
    /\ motor' = [m \in Motors |-> MotorStop(motor[m])]
    /\ tasks' = [t \in DOMAIN tasks |->
                    IF Done(tasks[t]) THEN tasks[t]
                    ELSE [tasks[t] EXCEPT !.st = "cancelled"]]
    /\ ready' = <<>>
    /\ ev' = Event("cleanup", None, "none")
    /\ UNCHANGED <<ctl_task, ticks, hist>>

RSInit ==
    /\ motor = [m \in Motors |-> NewMotor]
    /\ ctl_task = [m \in Motors |-> None]
    /\ tasks = <<>>
    /\ ready = <<>>
    /\ ticks = 0
    /\ hist = <<>>
    /\ ev = Event("init", None, "none")

\* a step of rover_server.py
RS(A) == prog = "rover_server" /\ A /\ UNCHANGED <<prog, wrvars, cdvars, written, nwrites>>

NextRS ==
    \/ \E p \in TankInputs : RS(SetTankDrive(p[1], p[2]))
    \/ \E cmd \in Commands : RS(ExecuteCommand(cmd))
    \/ RS(Stop)
    \/ \E t \in DOMAIN tasks : RS(TimerFire(t))
    \/ RS(DeliverCancel)
    \/ RS(RunAtSpeedStart(FALSE))
    \/ RS(RunAtSpeedResume(FALSE))
    \/ RS(MoveRun)

\* rover_server.py up to and including its shutdown: no request is served and
\* no task runs once run_app has returned
NextRSShutdown == (ev.op # "cleanup" /\ NextRS) \/ RS(Cleanup)

\* (left, right) speeds a caller passes to set_tank_drive directly: both zero,
\* and beyond the range -1.0 .. 1.0
ApiInputs == {<<0, 0>>, <<150, -100>>}

\* (left_speed, right_speed) carried by a tank_drive message: beyond the range
\* on both sides, and inside it
MessageInputs == {<<150, -250>>, <<30, 0>>}

Max(a, b) == IF a >= b THEN a ELSE b
Min(a, b) == IF a <= b THEN a ELSE b

\* handle_websocket_message: max(-1.0, min(1.0, speed))
Clamp(speed) == Max(-100, Min(100, speed))

\* handle_websocket_message, msg_type == 'tank_drive': both speeds are clamped
\* and passed to set_tank_drive
TankDriveMessage(left_speed, right_speed) ==
    SetTankDrive(Clamp(left_speed), Clamp(right_speed))

\* rover_server.py with its callers: tank_drive messages, and direct calls of
\* set_tank_drive
NextRSApi ==
    \/ NextRS
    \/ \E p \in ApiInputs : RS(SetTankDrive(p[1], p[2]))
    \/ \E p \in MessageInputs : RS(TankDriveMessage(p[1], p[2]))

\* GPIO.output raises inside StepperMotor.step
FaultRS ==
    \/ RS(RunAtSpeedStart(TRUE))
    \/ RS(RunAtSpeedResume(TRUE))

-----------------------------------------------------------------------------
(* WebRover_3.py *)

step_sequence ==
    << <<1, 0, 0, 1>>,
       <<1, 0, 0, 0>>,
       <<1, 1, 0, 0>>,
       <<0, 1, 0, 0>>,
       <<0, 1, 1, 0>>,
       <<0, 0, 1, 0>>,
       <<0, 0, 1, 1>>,
       <<0, 0, 0, 1>> >>

\* the socket handlers that may run at the same time
Handlers == {1, 2}

\* (left_steps, right_steps) offered to move_rover.  The counts are scaled
\* down: a thread makes abs(steps) passes over the eight patterns.
MoveInputs == {<<1, -1>>, <<-2, 0>>, <<0, 1>>}

IdleHandler == [op |-> "idle", l |-> 0, r |-> 0, pc |-> "idle", j |-> 0]

\* threaded_move(pins, steps, direction, stop_flag), with the thread's own
\* stop-flag dict {'stop': False}.  n: passes of the outer loop still to
\* start; i: position in range(8)[::direction].  History: late counts the
\* patterns written after the flag was set, flag_pc is where the thread was
\* when it was set.
NewThread(m, steps, direction) ==
    [m |-> m, n |-> Abs(Abs(steps)), direction |-> direction, i |-> 0,
     pc |-> "start", stop |-> FALSE, late |-> 0, flag_pc |-> "none"]

\* threading.Thread.is_alive
IsAlive(t) == thr[t].pc \notin {"dead", "raised"}

JoinReturnsAtOnce(t) == TRUE

\* thread.join(timeout=1.0) returns.  The timeout is a thousand step periods,
\* and a thread whose flag is set ends within one: the join returns because
\* the thread has ended.
JoinReturns(t) == ~IsAlive(t)

\* range(8)[::direction][i]
StepAt(i, direction) == IF direction = 1 THEN i ELSE 7 - i

Range(f) == {f[x] : x \in DOMAIN f}

\* a socket handler starts executing move_rover(l, r) or stop_motors()
Invoke(h, op, l, r) ==
    /\ handler[h].op = "idle"
    /\ wcalls < MaxWCalls
    /\ wcalls' = wcalls + 1
    /\ handler' = [handler EXCEPT ![h] = [op |-> op, l |-> l, r |-> r,
                                          pc |-> "flags", j |-> 1]]
    /\ UNCHANGED <<current_threads, thread_stop_flags, thr, gpio>>

\* stop_all_threads: `for flag in thread_stop_flags: flag['stop'] = True'
SetFlags(h) ==
    /\ handler[h].pc = "flags"
    /\ thr' = [t \in DOMAIN thr |->
                 IF t \in Range(thread_stop_flags) /\ ~thr[t].stop
                 THEN [thr[t] EXCEPT !.stop = TRUE, !.flag_pc = thr[t].pc]
                 ELSE thr[t]]
    /\ handler' = [handler EXCEPT ![h].pc = "join", ![h].j = 1]
    /\ UNCHANGED <<current_threads, thread_stop_flags, gpio, wcalls>>

\* stop_all_threads: `for thread in current_threads:
\*                        if thread.is_alive(): thread.join(timeout=1.0)'
Join(h) ==
    /\ handler[h].pc = "join"
    /\ IF handler[h].j > Len(current_threads)
       THEN handler' = [handler EXCEPT ![h].pc = "clear"]
       ELSE /\ JoinReturns(current_threads[handler[h].j])
            /\ handler' = [handler EXCEPT ![h].j = @ + 1]
    /\ UNCHANGED <<current_threads, thread_stop_flags, thr, gpio, wcalls>>

\* stop_all_threads: current_threads.clear(); thread_stop_flags.clear()
Clear(h) ==
    /\ handler[h].pc = "clear"
    /\ current_threads' = <<>>
    /\ thread_stop_flags' = <<>>
    /\ handler' = [handler EXCEPT ![h].pc =
                      IF handler[h].op = "move_rover" THEN "left" ELSE "pins"]
    /\ UNCHANGED <<thr, gpio, wcalls>>

\* move_rover: the flag and the thread of one motor are appended to the two
\* lists and the thread is started, unless its step count is 0
StartThread(h, m, steps, direction, next) ==
    /\ IF steps # 0
       THEN /\ thr' = Append(thr, NewThread(m, steps, direction))
            /\ thread_stop_flags' = Append(thread_stop_flags, Len(thr) + 1)
            /\ current_threads' = Append(current_threads, Len(thr) + 1)
       ELSE UNCHANGED <<thr, thread_stop_flags, current_threads>>
    /\ handler' = [handler EXCEPT ![h] = next]
    /\ UNCHANGED <<gpio, wcalls>>

\* move_rover: `if left_steps != 0:' with left_direction = -1 if left_steps > 0 else 1
StartLeft(h) ==
    /\ handler[h].pc = "left"
    /\ StartThread(h, "left", handler[h].l, IF handler[h].l > 0 THEN -1 ELSE 1,
                   [handler[h] EXCEPT !.pc = "right"])

\* move_rover: `if right_steps != 0:' with right_direction = 1 if right_steps > 0 else -1;
\* then move_rover returns
StartRight(h) ==
    /\ handler[h].pc = "right"
    /\ StartThread(h, "right", handler[h].r, IF handler[h].r > 0 THEN 1 ELSE -1,
                   IdleHandler)

\* the main thread after the stop_motors() of its finally block
DownHandler == [op |-> "down", l |-> 0, r |-> 0, pc |-> "down", j |-> 0]

\* stop_motors: `for pin in left_motor_pins + right_motor_pins: GPIO.output(pin, 0)';
\* then stop_motors returns
PinsOff(h) ==
    /\ handler[h].pc = "pins"
    /\ gpio' = [m \in Motors |-> Low]
    /\ handler' = [handler EXCEPT ![h] =
                      IF handler[h].op = "cleanup" THEN DownHandler ELSE IdleHandler]
    /\ UNCHANGED <<current_threads, thread_stop_flags, thr, wcalls>>

CheckOuterOnly(T) ==
    IF T.i < 8
    THEN [T EXCEPT !.pc = "write"]
    ELSE IF T.stop \/ T.n = 0
         THEN [T EXCEPT !.pc = "off"]
         ELSE [T EXCEPT !.n = @ - 1, !.i = 0, !.pc = "write"]

CheckGoesRound(T) ==
    IF T.stop
    THEN [T EXCEPT !.pc = "off"]
    ELSE IF T.i < 8
         THEN [T EXCEPT !.pc = "write"]
         ELSE [T EXCEPT !.i = 0, !.pc = "write"]

\* move_motor, from the top of an inner iteration to the next pattern write
\* or to the end of the loops.  Both loops check the stop flag first: a set
\* flag breaks the inner loop and then the outer one.  A finished inner loop
\* (i = 8) starts the next pass of the outer loop if one is left.
Check(T) ==
    IF T.stop
    THEN [T EXCEPT !.pc = "off"]
    ELSE IF T.i < 8
         THEN [T EXCEPT !.pc = "write"]
         ELSE IF T.n = 0
              THEN [T EXCEPT !.pc = "off"]
              ELSE [T EXCEPT !.n = @ - 1, !.i = 0, !.pc = "write"]

\* move_motor begins: the first pass of the outer loop
ThreadStart(t) ==
    /\ thr[t].pc = "start"
    /\ thr' = [thr EXCEPT ![t] = Check([@ EXCEPT !.i = 8])]
    /\ UNCHANGED <<current_threads, thread_stop_flags, gpio, handler, wcalls>>

\* move_motor: `for pin in range(4): GPIO.output(pins[pin], step_sequence[step][pin])';
\* with `raises' GPIO.output raises at some pin and the exception ends the thread
ThreadWrite(t, raises) ==
    /\ thr[t].pc = "write"
    /\ LET pat == step_sequence[StepAt(thr[t].i, thr[t].direction) + 1]
           m == thr[t].m
       IN  IF raises
           THEN \E k \in 0..3 :
                  /\ gpio' = [gpio EXCEPT ![m] = Written(gpio[m], pat, k)]
                  /\ thr' = [thr EXCEPT ![t].pc = "raised", ![t].n = 0, ![t].i = 0]
           ELSE /\ gpio' = [gpio EXCEPT ![m] = pat]
                /\ thr' = [thr EXCEPT ![t].pc = "sleep",
                                      ![t].late = IF thr[t].stop THEN @ + 1 ELSE @]
    /\ UNCHANGED <<current_threads, thread_stop_flags, handler, wcalls>>

\* move_motor: time.sleep(delay) returns, and the loops go on or end
ThreadSleep(t) ==
    /\ thr[t].pc = "sleep"
    /\ thr' = [thr EXCEPT ![t] = Check([@ EXCEPT !.i = @ + 1])]
    /\ UNCHANGED <<current_threads, thread_stop_flags, gpio, handler, wcalls>>

ThreadOffLeavesPins(t) ==
    /\ thr[t].pc = "off"
    /\ thr' = [thr EXCEPT ![t].pc = "dead", ![t].n = 0, ![t].i = 0]
    /\ UNCHANGED <<current_threads, thread_stop_flags, gpio, handler, wcalls>>

\* move_motor: `for pin in pins: GPIO.output(pin, False)', and the thread ends
\* (its loop variables with it)
ThreadOff(t) ==
    /\ thr[t].pc = "off"
    /\ gpio' = [gpio EXCEPT ![thr[t].m] = Low]
    /\ thr' = [thr EXCEPT ![t].pc = "dead", ![t].n = 0, ![t].i = 0]
    /\ UNCHANGED <<current_threads, thread_stop_flags, handler, wcalls>>

WRInit ==
    /\ current_threads = <<>>
    /\ thread_stop_flags = <<>>
    /\ thr = <<>>
    /\ gpio = [m \in Motors |-> Low]
    /\ handler = [h \in Handlers |-> IdleHandler]
    /\ wcalls = 0
    /\ written = [m \in Motors |-> Low]
    /\ nwrites = <<>>

\* a step of WebRover_3.py
WR(A) == prog = "WebRover_3" /\ A /\ UNCHANGED <<prog, rsvars, cdvars, written, nwrites>>

\* what socket handler h does
HandlerStep(h) ==
    \/ \E p \in MoveInputs : WR(Invoke(h, "move_rover", p[1], p[2]))
    \/ WR(Invoke(h, "stop_motors", 0, 0))
    \/ WR(SetFlags(h))
    \/ WR(Join(h))
    \/ WR(Clear(h))
    \/ WR(StartLeft(h))
    \/ WR(StartRight(h))
    \/ WR(PinsOff(h))

\* what the motor threads do
ThreadStep ==
    \/ \E t \in DOMAIN thr : WR(ThreadStart(t))
    \/ \E t \in DOMAIN thr : WR(ThreadWrite(t, FALSE))
    \/ \E t \in DOMAIN thr : WR(ThreadSleep(t))
    \/ \E t \in DOMAIN thr : WR(ThreadOff(t))

\* requests handled one after another: a single handler
NextWR == HandlerStep(1) \/ ThreadStep

\* a step of WebRover_3.py in a run that keeps, as `written', the last step
\* pattern each motor's pins were given
WP(A) ==
    /\ prog = "WebRover_3"
    /\ A
    /\ written' = [m \in Motors |->
                      IF \E t \in DOMAIN thr :
                            thr[t].m = m /\ thr[t].pc = "write" /\ thr'[t].pc = "sleep"
                      THEN gpio'[m]
                      ELSE written[m]]
    /\ UNCHANGED <<prog, rsvars, cdvars, nwrites>>

\* requests handled one after another, the patterns written being kept
NextWRPatterns ==
    \/ \E p \in MoveInputs : WP(Invoke(1, "move_rover", p[1], p[2]))
    \/ WP(Invoke(1, "stop_motors", 0, 0))
    \/ WP(SetFlags(1))
    \/ WP(Join(1))
    \/ WP(Clear(1))
    \/ WP(StartLeft(1))
    \/ WP(StartRight(1))
    \/ WP(PinsOff(1))
    \/ \E t \in DOMAIN thr : WP(ThreadStart(t))
    \/ \E t \in DOMAIN thr : WP(ThreadWrite(t, FALSE))
    \/ \E t \in DOMAIN thr : WP(ThreadSleep(t))
    \/ \E t \in DOMAIN thr : WP(ThreadOff(t))

\* a step of WebRover_3.py in a run that keeps, as `nwrites', the step count
\* move_rover created each thread for and the patterns the thread has written
WN(A) ==
    /\ prog = "WebRover_3"
    /\ A
    /\ nwrites' = [t \in DOMAIN thr' |->
                      IF t \notin DOMAIN thr
                      THEN [steps |-> IF handler[1].pc = "left"
                                      THEN handler[1].l ELSE handler[1].r,
                            writes |-> 0]
                      ELSE IF thr[t].pc = "write" /\ thr'[t].pc = "sleep"
                           THEN [nwrites[t] EXCEPT !.writes = @ + 1]
                           ELSE nwrites[t]]
    /\ UNCHANGED <<prog, rsvars, cdvars, written>>

\* (left_steps, right_steps) offered to move_rover in the counting run
CountInputs == {<<1, -1>>, <<-2, 0>>}

\* a request arrives at the only handler
Arrives ==
    \/ \E p \in CountInputs : WN(Invoke(1, "move_rover", p[1], p[2]))
    \/ WN(Invoke(1, "stop_motors", 0, 0))

\* the handler goes on inside move_rover or stop_motors
HandlerGoesOn ==
    \/ WN(SetFlags(1))
    \/ WN(Join(1))
    \/ WN(Clear(1))
    \/ WN(StartLeft(1))
    \/ WN(StartRight(1))
    \/ WN(PinsOff(1))

\* thread t goes on inside move_motor
ThreadGoesOn(t) ==
    /\ t \in DOMAIN thr
    /\ \/ WN(ThreadStart(t))
       \/ WN(ThreadWrite(t, FALSE))
       \/ WN(ThreadSleep(t))
       \/ WN(ThreadOff(t))

\* the ids of the threads a run can create: two for each call
ThreadIds == 1..(2 * MaxWCalls)

\* requests handled one after another, the patterns written being counted
NextWRCount == Arrives \/ HandlerGoesOn \/ \E t \in ThreadIds : ThreadGoesOn(t)

\* the operating system runs every thread that can run, and time.sleep and
\* join(timeout=1.0) return: a thread or handler that can take a step takes it
FairWRCount ==
    /\ WF_vars(HandlerGoesOn)
    /\ \A t \in ThreadIds : WF_vars(ThreadGoesOn(t))

\* requests handled concurrently
NextWRConc == (\E h \in Handlers : HandlerStep(h)) \/ ThreadStep

\* what a handler does once it is inside move_rover or stop_motors
HandlerRun(h) ==
    \/ WR(SetFlags(h))
    \/ WR(Join(h))
    \/ WR(Clear(h))
    \/ WR(StartLeft(h))
    \/ WR(StartRight(h))
    \/ WR(PinsOff(h))

\* a stop request and a motion request that arrive together: handler 1 has
\* entered stop_motors and handler 2 has entered move_rover, neither has done
\* anything yet
RaceInit ==
    /\ current_threads = <<>>
    /\ thread_stop_flags = <<>>
    /\ thr = <<>>
    /\ gpio = [m \in Motors |-> Low]
    /\ \E p \in MoveInputs :
          handler = [h \in Handlers |->
                       IF h = 1
                       THEN [op |-> "stop_motors", l |-> 0, r |-> 0,
                             pc |-> "flags", j |-> 1]
                       ELSE [op |-> "move_rover", l |-> p[1], r |-> p[2],
                             pc |-> "flags", j |-> 1]]
    /\ wcalls = 2
    /\ written = [m \in Motors |-> Low]
    /\ nwrites = <<>>

NextWRRace == (\E h \in Handlers : HandlerRun(h)) \/ ThreadStep

\* __main__: socketio.run has returned or raised and the finally block calls
\* stop_motors() on the main thread
Shutdown(h) ==
    /\ handler[h].op = "idle"
    /\ handler' = [handler EXCEPT ![h] = [op |-> "cleanup", l |-> 0, r |-> 0,
                                          pc |-> "flags", j |-> 1]]
    /\ UNCHANGED <<current_threads, thread_stop_flags, thr, gpio, wcalls>>

\* the server is interrupted while a socket handler has just entered
\* move_rover: thread 1 is the main thread, thread 2 the handler's
ShutdownInit ==
    /\ current_threads = <<>>
    /\ thread_stop_flags = <<>>
    /\ thr = <<>>
    /\ gpio = [m \in Motors |-> Low]
    /\ \E p \in MoveInputs :
          handler = [h \in Handlers |->
                       IF h = 1
                       THEN IdleHandler
                       ELSE [op |-> "move_rover", l |-> p[1], r |-> p[2],
                             pc |-> "flags", j |-> 1]]
    /\ wcalls = 1
    /\ written = [m \in Motors |-> Low]
    /\ nwrites = <<>>

NextWRShutdown ==
    \/ WR(Shutdown(1))
    \/ \E h \in Handlers : HandlerRun(h)
    \/ ThreadStep

\* GPIO.output raises inside move_motor's pattern write
FaultWR == \E t \in DOMAIN thr : WR(ThreadWrite(t, TRUE))

-----------------------------------------------------------------------------
(* WebRover_3.py: handle_controller_data.  Stick and trigger values are in
   hundredths, like the speeds above. *)

full_turn_steps == 128
DEADZONE == 20
MAX_SPEED_STEPS == 200

\* int(x) for the quotient n / d with d > 0: truncation towards zero
Trunc(n, d) == IF n >= 0 THEN n \div d ELSE -((-n) \div d)

ApplyDeadzoneUnscaled(value, deadzone) ==
    IF Abs(value) < deadzone THEN 0 ELSE value

ApplyDeadzoneMirrored(value, deadzone) ==
    IF Abs(value) < deadzone THEN 0
    ELSE IF value > 0 THEN value - deadzone
    ELSE -(value + deadzone)

\* apply_deadzone(value, deadzone) times (1 - deadzone), so that the result
\* stays an integer: 0 inside the deadzone, else the value moved towards zero
\* by deadzone.  The value returned is this numerator over (1 - deadzone).
ApplyDeadzoneOf(value, deadzone) ==
    IF Abs(value) < deadzone THEN 0
    ELSE IF value > 0 THEN value - deadzone
    ELSE value + deadzone

\* apply_deadzone(value), with the default deadzone=DEADZONE
ApplyDeadzone(value) == ApplyDeadzoneOf(value, DEADZONE)

\* what a frame can make the handler do
StopMotors == [op |-> "stop_motors", l |-> 0, r |-> 0]
MoveRover(l, r) == [op |-> "move_rover", l |-> l, r |-> r]
Nothing == [op |-> "none", l |-> 0, r |-> 0]

\* handle_controller_data: the d-pad chain
DpadCommand(data) ==
    IF data.dpad.up THEN MoveRover(full_turn_steps \div 4, full_turn_steps \div 4)
    ELSE IF data.dpad.down
         THEN MoveRover((-full_turn_steps) \div 4, (-full_turn_steps) \div 4)
    ELSE IF data.dpad.left
         THEN MoveRover((-full_turn_steps) \div 4, full_turn_steps \div 4)
    ELSE MoveRover(full_turn_steps \div 4, (-full_turn_steps) \div 4)

DpadPressed(data) ==
    data.dpad.up \/ data.dpad.down \/ data.dpad.left \/ data.dpad.right

ArcadePowersUncapped(forward, turn) ==
    [left |-> forward + turn, right |-> forward - turn, over |-> 100 - DEADZONE]

\* handle_controller_data, arcade drive: the two powers after normalisation.
\* forward and turn are numerators over (1 - DEADZONE), as ApplyDeadzone
\* returns them; the powers are the fractions left / over and right / over.
ArcadePowers(forward, turn) ==
    LET left_power == forward + turn
        right_power == forward - turn
        max_power == Max(Abs(left_power), Abs(right_power))
    IN  IF max_power > 100 - DEADZONE
        THEN [left |-> left_power, right |-> right_power, over |-> max_power]
        ELSE [left |-> left_power, right |-> right_power, over |-> 100 - DEADZONE]

\* handle_controller_data: arcade drive (left trigger beyond 0.5)
ArcadeSteps(data) ==
    LET P == ArcadePowers(ApplyDeadzone(data.leftY), ApplyDeadzone(data.leftX))
    IN  <<Trunc(P.left * MAX_SPEED_STEPS, P.over),
          Trunc(P.right * MAX_SPEED_STEPS, P.over)>>

\* handle_controller_data: tank drive
TankSteps(data) ==
    <<Trunc(ApplyDeadzone(data.leftY) * MAX_SPEED_STEPS, 100 - DEADZONE),
      Trunc(ApplyDeadzone(data.rightY) * MAX_SPEED_STEPS, 100 - DEADZONE)>>

StickCommandArcadeAtHalf(data) ==
    LET steps == IF data.leftTrigger >= 50 THEN ArcadeSteps(data) ELSE TankSteps(data)
    IN  IF Abs(steps[1]) > 5 \/ Abs(steps[2]) > 5
        THEN MoveRover(steps[1], steps[2])
        ELSE Nothing

\* handle_controller_data: joystick control, with the final test for
\* significant input
StickCommand(data) ==
    LET steps == IF data.leftTrigger > 50 THEN ArcadeSteps(data) ELSE TankSteps(data)
    IN  IF Abs(steps[1]) > 5 \/ Abs(steps[2]) > 5
        THEN MoveRover(steps[1], steps[2])
        ELSE Nothing

HandleControllerDataSticksFirst(data) ==
    IF StickCommand(data).op = "move_rover" THEN StickCommand(data)
    ELSE IF data.buttons.A THEN StopMotors
    ELSE IF data.buttons.B THEN MoveRover(full_turn_steps, full_turn_steps)
    ELSE IF data.buttons.X THEN MoveRover(-full_turn_steps, -full_turn_steps)
    ELSE IF DpadPressed(data) THEN DpadCommand(data)
    ELSE Nothing

\* handle_controller_data: the call the frame results in
HandleControllerData(data) ==
    IF data.buttons.A THEN StopMotors
    ELSE IF data.buttons.B THEN MoveRover(full_turn_steps, full_turn_steps)
    ELSE IF data.buttons.X THEN MoveRover(-full_turn_steps, -full_turn_steps)
    ELSE IF DpadPressed(data) THEN DpadCommand(data)
    ELSE StickCommand(data)

\* the frame has the key
Has(d, k) == k \in DOMAIN d

\* handle_controller_data: the path taken through the handler reads a key the
\* frame lacks, so the subscription raises KeyError inside the try block
KeyErrorIn(data) ==
    IF ~Has(data, "buttons") THEN TRUE
    ELSE IF ~Has(data.buttons, "A") THEN TRUE
    ELSE IF data.buttons.A THEN FALSE
    ELSE IF ~Has(data.buttons, "B") THEN TRUE
    ELSE IF data.buttons.B THEN FALSE
    ELSE IF ~Has(data.buttons, "X") THEN TRUE
    ELSE IF data.buttons.X THEN FALSE
    ELSE IF ~Has(data, "dpad") THEN TRUE
    ELSE IF ~Has(data.dpad, "up") THEN TRUE
    ELSE IF data.dpad.up THEN FALSE
    ELSE IF ~Has(data.dpad, "down") THEN TRUE
    ELSE IF data.dpad.down THEN FALSE
    ELSE IF ~Has(data.dpad, "left") THEN TRUE
    ELSE IF data.dpad.left THEN FALSE
    ELSE IF ~Has(data.dpad, "right") THEN TRUE
    ELSE IF data.dpad.right THEN FALSE
    ELSE \E k \in {"leftX", "leftY", "rightX", "rightY", "leftTrigger"} :
             ~Has(data, k)

\* handle_controller_data with its try/except: an exception raised on the way
\* is caught and printed, and the handler returns without a motor call
HandleControllerDataTry(data) ==
    IF KeyErrorIn(data) THEN Nothing ELSE HandleControllerData(data)

\* stick positions offered: full back, centre, just beyond the deadzone, a
\* quarter beyond it.  The source computes in binary floating point; for these
\* positions its results, truncated by int(), are those of the exact
\* quotients used here.
StickValues == {-100, 0, 23, 40}
\* left trigger: released, at the 0.5 threshold, pressed
TriggerValues == {0, 50, 100}

Frames ==
    [buttons : [A : BOOLEAN, B : BOOLEAN, X : BOOLEAN],
     dpad : [up : BOOLEAN, down : BOOLEAN, left : BOOLEAN, right : BOOLEAN],
     leftX : StickValues, leftY : StickValues,
     rightX : {0, -100}, rightY : StickValues,
     leftTrigger : TriggerValues]

NoFrame == [op |-> "no frame"]
NoCall == [fn |-> "none"]

\* a controller_data event arrives and handle_controller_data runs on it
ControllerData(data) ==
    /\ frame = NoFrame
    /\ frame' = data
    /\ result' = HandleControllerDataTry(data)
    /\ UNCHANGED <<call, ret>>

CDInit ==
    /\ frame = NoFrame
    /\ result = Nothing
    /\ call = NoCall
    /\ ret = NoCall

\* a step of the controller_data handler of WebRover_3.py
CD(A) == prog = "controller_data" /\ A /\ UNCHANGED <<prog, rsvars, wrvars, written, nwrites>>

NextCD ==
    /\ prog = "controller_data"
    /\ frame = NoFrame
    /\ \E data \in Frames : CD(ControllerData(data))

\* the record without one of its keys
Drop(d, k) == [x \in DOMAIN d \ {k} |-> d[x]]

\* complete frames from which fields are taken away
BaseFrames ==
    [buttons : [A : BOOLEAN, B : BOOLEAN, X : BOOLEAN],
     dpad : [up : BOOLEAN, down : {FALSE}, left : {FALSE}, right : BOOLEAN],
     leftX : {0}, leftY : {0, 40},
     rightX : {0}, rightY : {0, -100},
     leftTrigger : {0, 100}]

FrameKeys ==
    {"buttons", "dpad", "leftX", "leftY", "rightX", "rightY", "leftTrigger"}

\* frames lacking one top-level field, one button key or one d-pad key
PartialFrames ==
    {Drop(d, k) : d \in BaseFrames, k \in FrameKeys}
    \cup {[d EXCEPT !.buttons = Drop(d.buttons, k)] :
             d \in BaseFrames, k \in {"A", "B", "X"}}
    \cup {[d EXCEPT !.dpad = Drop(d.dpad, k)] :
             d \in BaseFrames, k \in {"up", "down", "left", "right"}}

\* a controller_data event arrives whose frame lacks a field
NextCDPartial ==
    /\ prog = "controller_data"
    /\ frame = NoFrame
    /\ \E data \in PartialFrames : CD(ControllerData(data))

-----------------------------------------------------------------------------
(* Functions of WebRover_3.py taken alone *)

\* post-deadzone stick values in [-1, 1], as numerators over (1 - DEADZONE):
\* every tenth of the range
PowerInputs == {8 * k : k \in -10..10}

\* a function is applied once to arguments of the caller's choice
FN(A) ==
    /\ prog = "functions"
    /\ call = NoCall
    /\ A
    /\ UNCHANGED <<prog, rsvars, wrvars, frame, result, written, nwrites>>

\* the arcade branch of handle_controller_data is applied to (forward, turn)
CallArcade(forward, turn) ==
    /\ call' = [fn |-> "arcade", forward |-> forward, turn |-> turn]
    /\ ret' = ArcadePowers(forward, turn)

NextArcade == \E f \in PowerInputs : \E t \in PowerInputs : FN(CallArcade(f, t))

\* stick values in [-1, 1], every twentieth, and deadzones in (0, 1)
ValueInputs == {5 * k : k \in -20..20}
DeadzoneInputs == {5, 20, 50, 95}

\* apply_deadzone(value, deadzone) is called
CallApplyDeadzone(value, deadzone) ==
    /\ call' = [fn |-> "apply_deadzone", value |-> value, deadzone |-> deadzone]
    /\ ret' = [num |-> ApplyDeadzoneOf(value, deadzone), over |-> 100 - deadzone]

NextDeadzone ==
    \E v \in ValueInputs : \E dz \in DeadzoneInputs : FN(CallApplyDeadzone(v, dz))

\* Stick values in thousandths, to reach the positions just beyond the
\* deadzone that hundredths cannot express: 1.0 is Unit
Unit == 1000

\* DEADZONE in thousandths
FineDeadzone == (DEADZONE * Unit) \div 100

\* stick positions in thousandths: the ends, the deadzone edges, positions
\* within 0.005 beyond them, and some in between
FineValues ==
    {-1000, -610, -203, -200, -199, 0, 199, 200, 203, 610, 1000}

DriveModes == {"tank", "arcade"}

FinePowersUncapped(mode, a, b) ==
    [left |-> ApplyDeadzoneOf(a, FineDeadzone) + ApplyDeadzoneOf(b, FineDeadzone),
     right |-> ApplyDeadzoneOf(a, FineDeadzone) - ApplyDeadzoneOf(b, FineDeadzone),
     over |-> Unit - FineDeadzone]

\* handle_controller_data, joystick control: the normalized powers of the two
\* motors, as the fractions left / over and right / over.  In tank mode
\* a is leftY and b is rightY; in arcade mode a is leftY and b is leftX.
FinePowers(mode, a, b) ==
    IF mode = "tank"
    THEN [left |-> ApplyDeadzoneOf(a, FineDeadzone),
          right |-> ApplyDeadzoneOf(b, FineDeadzone),
          over |-> Unit - FineDeadzone]
    ELSE LET forward == ApplyDeadzoneOf(a, FineDeadzone)
             turn == ApplyDeadzoneOf(b, FineDeadzone)
             left_power == forward + turn
             right_power == forward - turn
             max_power == Max(Abs(left_power), Abs(right_power))
         IN  [left |-> left_power, right |-> right_power,
              over |-> IF max_power > Unit - FineDeadzone
                       THEN max_power ELSE Unit - FineDeadzone]

\* the joystick branch of handle_controller_data is applied to two axes:
\* int(power * MAX_SPEED_STEPS) for each motor, and whether move_rover is
\* called with the two counts
CallJoystick(mode, a, b) ==
    /\ call' = [fn |-> "joystick", mode |-> mode, a |-> a, b |-> b]
    /\ ret' = LET P == FinePowers(mode, a, b)
                  left_steps == Trunc(P.left * MAX_SPEED_STEPS, P.over)
                  right_steps == Trunc(P.right * MAX_SPEED_STEPS, P.over)
              IN  [power |-> P, left_steps |-> left_steps, right_steps |-> right_steps,
                   moves |-> (Abs(left_steps) > 5 \/ Abs(right_steps) > 5)]

NextJoystick ==
    \E mode \in DriveModes : \E a \in FineValues : \E b \in FineValues :
        FN(CallJoystick(mode, a, b))

\* speeds handed to run_at_speed, in hundredths: every one from -1.2 to 1.2
SpeedInputs == -120..120

\* run_at_speed(speed) from its top to `delay = base_delay / abs(speed)':
\* whether the division is evaluated, and the delay it gives
RunAtSpeedDelay(speed) ==
    IF InDeadzone(speed)
    THEN [divides |-> FALSE, delay |-> 0]
    ELSE [divides |-> TRUE, delay |-> Delay(speed)]

\* run_at_speed(speed) is called
CallRunAtSpeed(speed) ==
    /\ call' = [fn |-> "run_at_speed", speed |-> speed]
    /\ ret' = RunAtSpeedDelay(speed)

NextDelay == \E speed \in SpeedInputs : FN(CallRunAtSpeed(speed))

InitFN == prog = "functions" /\ RSInit /\ WRInit /\ CDInit

-----------------------------------------------------------------------------
(* WebRover_2.py.  Its move_motor has no stop flag and no pins-off at the end,
   its move_rover joins the threads it started, and its stop_motors calls
   stop_all_threads, a name the module never defines.  `current_threads'
   holds move_rover's local list `threads'. *)

\* where a stop request comes from
StopSources == {"manual_command", "controller_data", "disconnect"}

\* a step of WebRover_2.py
W2(A) == prog = "WebRover_2" /\ A /\ UNCHANGED <<prog, rsvars, cdvars, written, nwrites>>

\* a handler calls move_rover(l, r)
W2Invoke(h, l, r) ==
    /\ handler[h].op = "idle"
    /\ wcalls < MaxWCalls
    /\ wcalls' = wcalls + 1
    /\ handler' = [handler EXCEPT ![h] = [op |-> "move_rover", l |-> l, r |-> r,
                                          pc |-> "left", j |-> 1]]
    /\ UNCHANGED <<current_threads, thread_stop_flags, thr, gpio>>

\* move_rover: one motor's thread is created, appended to `threads' and
\* started, unless its step count is 0
W2StartThread(h, m, steps, direction, next) ==
    /\ IF steps # 0
       THEN /\ thr' = Append(thr, NewThread(m, steps, direction))
            /\ current_threads' = Append(current_threads, Len(thr) + 1)
       ELSE UNCHANGED <<thr, current_threads>>
    /\ handler' = [handler EXCEPT ![h].pc = next]
    /\ UNCHANGED <<thread_stop_flags, gpio, wcalls>>

W2StartLeft(h) ==
    /\ handler[h].op = "move_rover" /\ handler[h].pc = "left"
    /\ W2StartThread(h, "left", handler[h].l,
                     IF handler[h].l > 0 THEN -1 ELSE 1, "right")

W2StartRight(h) ==
    /\ handler[h].op = "move_rover" /\ handler[h].pc = "right"
    /\ W2StartThread(h, "right", handler[h].r,
                     IF handler[h].r > 0 THEN 1 ELSE -1, "join")

\* move_rover: `for thread in threads: thread.join()', and move_rover returns
W2Join(h) ==
    /\ handler[h].op = "move_rover" /\ handler[h].pc = "join"
    /\ \A k \in DOMAIN current_threads : ~IsAlive(current_threads[k])
    /\ current_threads' = <<>>
    /\ handler' = [handler EXCEPT ![h] = IdleHandler]
    /\ UNCHANGED <<thread_stop_flags, thr, gpio, wcalls>>

\* the name stop_all_threads is looked up when stop_motors calls it
StopAllThreadsDefined == FALSE

\* stop_motors() is called on a stop request: stop_all_threads() raises
\* NameError before the loop that sets the pins low is reached; were the name
\* defined, the eight pins would be set low and stop_motors would return
W2StopMotors(h, source) ==
    /\ handler[h].op = "idle"
    /\ wcalls < MaxWCalls
    /\ wcalls' = wcalls + 1
    /\ IF StopAllThreadsDefined
       THEN /\ gpio' = [m \in Motors |-> Low]
            /\ handler' = [handler EXCEPT ![h] =
                              [op |-> "stop_motors", l |-> 0, r |-> 0,
                               pc |-> "returned", j |-> 0, source |-> source]]
       ELSE /\ gpio' = gpio
            /\ handler' = [handler EXCEPT ![h] =
                              [op |-> "stop_motors", l |-> 0, r |-> 0,
                               pc |-> "NameError", j |-> 0, source |-> source]]
    /\ UNCHANGED <<current_threads, thread_stop_flags, thr>>

\* the stop request is over: stop_motors has returned, or its NameError was
\* printed by handle_controller_data's except clause, or it left
\* handle_manual_command / handle_disconnect
W2StopOver(h) ==
    /\ handler[h].op = "stop_motors"
    /\ handler' = [handler EXCEPT ![h] = IdleHandler]
    /\ UNCHANGED <<current_threads, thread_stop_flags, thr, gpio, wcalls>>

\* move_motor of WebRover_2.py ends after its loops, leaving the pins as the
\* last pattern set them
W2ThreadEnd(t) ==
    /\ thr[t].pc = "off"
    /\ thr' = [thr EXCEPT ![t].pc = "dead", ![t].n = 0, ![t].i = 0]
    /\ UNCHANGED <<current_threads, thread_stop_flags, gpio, handler, wcalls>>

\* handler 1 serves the motion requests and handler 2, at the same time, the
\* stop requests
NextW2 ==
    \/ \E p \in MoveInputs : W2(W2Invoke(1, p[1], p[2]))
    \/ W2(W2StartLeft(1))
    \/ W2(W2StartRight(1))
    \/ W2(W2Join(1))
    \/ \E source \in StopSources : W2(W2StopMotors(2, source))
    \/ W2(W2StopOver(2))
    \/ \E t \in DOMAIN thr : W2(ThreadStart(t))
    \/ \E t \in DOMAIN thr : W2(ThreadWrite(t, FALSE))
    \/ \E t \in DOMAIN thr : W2(ThreadSleep(t))
    \/ \E t \in DOMAIN thr : W2(W2ThreadEnd(t))

InitW2 == prog = "WebRover_2" /\ RSInit /\ WRInit /\ CDInit

-----------------------------------------------------------------------------
(* Specifications *)

InitRS == prog = "rover_server" /\ RSInit /\ WRInit /\ CDInit
InitWR == prog = "WebRover_3" /\ RSInit /\ WRInit /\ CDInit
InitCD == prog = "controller_data" /\ RSInit /\ WRInit /\ CDInit

\* rover_server.py alone, WebRover_3.py alone
SpecRS == InitRS /\ [][NextRS]_vars
SpecRSApi == InitRS /\ [][NextRSApi]_vars
SpecWR == InitWR /\ [][NextWR]_vars
SpecWRConc == InitWR /\ [][NextWRConc]_vars

\* WebRover_3.py, a stop request racing a motion request
InitWRRace == prog = "WebRover_3" /\ RSInit /\ RaceInit /\ CDInit
SpecWRRace == InitWRRace /\ [][NextWRRace]_vars

\* the arcade normalisation alone
SpecArcade == InitFN /\ [][NextArcade]_vars

\* the joystick branch of handle_controller_data alone
SpecJoystick == InitFN /\ [][NextJoystick]_vars

\* the delay computation of run_at_speed alone
SpecDelay == InitFN /\ [][NextDelay]_vars

\* apply_deadzone alone
SpecDeadzone == InitFN /\ [][NextDeadzone]_vars

\* WebRover_3.py with its controller_data handler
SpecWRFrames == (InitWR \/ InitCD) /\ [][NextWR \/ NextCD]_vars

\* the controller_data handler of WebRover_3.py on incomplete frames
SpecCDPartial == InitCD /\ [][NextCDPartial]_vars

\* WebRover_3.py alone, the patterns written being kept
SpecWRPatterns == InitWR /\ [][NextWRPatterns]_vars

\* WebRover_3.py alone, the patterns written being counted, every thread and
\* the handler scheduled fairly
SpecWRCount == InitWR /\ [][NextWRCount]_vars /\ FairWRCount

\* WebRover_2.py
SpecW2 == InitW2 /\ [][NextW2]_vars

\* both programs with their shutdown
InitWRShutdown == prog = "WebRover_3" /\ RSInit /\ ShutdownInit /\ CDInit
InitShutdown == InitRS \/ InitWRShutdown
NextShutdown == NextRSShutdown \/ NextWRShutdown
SpecShutdown == InitShutdown /\ [][NextShutdown]_vars

\* either program
Init == InitRS \/ InitWR
Next == NextRS \/ NextWR
Spec == Init /\ [][Next]_vars

\* either program, on hardware whose pin writes may raise
NextFault == NextRS \/ NextWR \/ FaultRS \/ FaultWR
SpecFault == Init /\ [][NextFault]_vars
-----------------------------------------------------------------------------
(* Vocabulary of the properties *)

RunTasks(m) == {t \in DOMAIN tasks : tasks[t].coro = "run_at_speed" /\ tasks[t].motor = m}

\* the run_at_speed loops of motor m that can still perform a step()
LiveLoops(m) == {t \in RunTasks(m) : ~Done(tasks[t]) /\ ~tasks[t].must_cancel}

\* events in which a task called step()
StepOps == {"step", "raise"}

Idle(m) == ~motor[m].is_running /\ motor[m].current_speed = 0 /\ motor[m].pins = Low

\* every task handed to the event loop has run
Quiescent == ready = <<>>

LastCall == hist[Len(hist)]

\* the speed the last call asked of motor m
Requested(m) == IF m = "left" THEN LastCall.l ELSE LastCall.r

\* the calls so far are execute_command('forward'), execute_command('stop')
ForwardThenStop ==
    /\ Len(hist) = 2
    /\ hist[1].op = "execute_command" /\ hist[1].cmd = "forward"
    /\ hist[2].op = "execute_command" /\ hist[2].cmd = "stop"

\* the move_motor threads of motor m that are alive
AliveThreads(m) == {t \in DOMAIN thr : thr[t].m = m /\ IsAlive(t)}

-----------------------------------------------------------------------------
(* C1: under any interleaving of set_tank_drive, execute_command and stop
   calls with the event loop, each motor has at most one run_at_speed loop
   that can still perform a step(), and a loop never performs a step once a
   loop created after it for the same motor has performed one. *)
C1_NoDoubleDrive ==
    /\ [](\A m \in Motors : Cardinality(LiveLoops(m)) <= 1)
    /\ [][ev'.op \in StepOps =>
            \A t \in RunTasks(ev'.motor) : t > ev'.task => ~tasks[t].stepped]_vars

\* a loop that had stepped was superseded, and its replacement has stepped
C1_Witness ==
    /\ ev.op = "step"
    /\ \E t \in RunTasks(ev.motor) :
          t < ev.task /\ tasks[t].stepped /\ tasks[t].st = "cancelled"

(* C2: execute_command('forward') immediately followed by
   execute_command('stop'): no motor steps after the stop call returned, and
   once all pending tasks have run both motors are idle with coils low. *)
C2_ForwardStopIdle ==
    ForwardThenStop =>
        /\ ev.op \notin StepOps
        /\ Quiescent => \A m \in Motors : Idle(m)

(* C3: after any sequence of set_tank_drive and execute_command calls and
   quiescence, each motor's current_speed and running state are those the
   last call asked for. *)
C3_LastWriterWins ==
    ( /\ hist # <<>>
      /\ \A i \in DOMAIN hist : hist[i].op \in {"set_tank_drive", "execute_command"}
      /\ Quiescent ) =>
        \A m \in Motors :
            IF Abs(Requested(m)) < RunDeadzone
            THEN motor[m].current_speed = 0 /\ ~motor[m].is_running
            ELSE motor[m].current_speed = Requested(m) /\ motor[m].is_running

(* C4: whenever a run_at_speed loop of a motor ends (loop condition false,
   task cancelled, or deadzone branch), the motor's four coils are low when
   it has ended. *)
C4_CoilsLowAtLoopEnd ==
    [][\A m \in Motors : \A t \in RunTasks(m) :
          ( /\ tasks[t].st # "new"
            /\ ~Done(tasks[t])
            /\ tasks'[t].st \in {"done", "cancelled"} ) =>
                motor'[m].pins = Low]_vars

(* C5: if the pin write raises inside a stepping loop (StepperMotor.step in
   run_at_speed; GPIO.output in move_motor), the motor's four coils are set
   low before the failure leaves the loop. *)
C5_CoilsLowOnWriteFailure ==
    /\ ev.op = "raise" => motor[ev.motor].pins = Low
    /\ \A t \in DOMAIN thr : thr[t].pc = "raised" => gpio[thr[t].m] = Low

(* C6: for any interleaving of socket handlers calling move_rover, at most one
   move_motor thread per motor is alive at any instant. *)
C6_OneThreadPerMotor ==
    \A m \in Motors : Cardinality(AliveThreads(m)) <= 1

(* C7: with move_rover calls issued one after another, a thread started for a
   motor exists, and so writes, only after every earlier thread for that motor
   has ended, having set the motor's pins low as its last act. *)
C7_StartsAfterRetirement ==
    \A t \in DOMAIN thr : IsAlive(t) =>
        \A u \in DOMAIN thr : (u < t /\ thr[u].m = thr[t].m) => thr[u].pc = "dead"

\* a thread has written a pattern after an earlier thread of its motor was
\* stopped through its flag
C7_Witness ==
    \E t, u \in DOMAIN thr :
        /\ u < t /\ thr[u].m = thr[t].m
        /\ thr[t].pc = "sleep"
        /\ thr[u].pc = "dead" /\ thr[u].flag_pc \in {"write", "sleep"}

(* C8: after cancellation of a stepping loop is requested (task.cancel() on a
   run_at_speed task; the stop flag of a move_motor thread), the loop issues
   at most one more pattern write, and none if the request arrived during the
   per-step wait, however many steps remained. *)
C8_StopWithinOneStep ==
    /\ ev.op \in StepOps => ~tasks[ev.task].must_cancel
    /\ \A t \in DOMAIN thr :
          /\ thr[t].late <= 1
          /\ thr[t].flag_pc \in {"start", "sleep"} => thr[t].late = 0

\* a thread flagged in its wait, with a pass of the outer loop still to go,
\* has left its loops without another write
C8_Witness ==
    \E t \in DOMAIN thr :
        thr[t].pc = "off" /\ thr[t].flag_pc = "sleep" /\ thr[t].n > 0 /\ thr[t].late = 0

(* C9: when RoverMotorController.stop() returns, both motors have
   is_running = False and current_speed = 0.0, all eight coils are low, and
   no run_at_speed task that existed before the call steps afterwards. *)
C9_StopIsFinal ==
    /\ ev.op \in {"stop", "execute_command"} => \A m \in Motors : Idle(m)
    /\ ev.op \in StepOps =>
          \A i \in DOMAIN hist :
              hist[i].op \in {"stop", "execute_command"} => ev.task > hist[i].n

\* stop() has just returned and it interrupted a loop that had been stepping
C9_Witness ==
    /\ ev.op = "stop"
    /\ \E t \in DOMAIN tasks :
          tasks[t].stepped /\ tasks[t].must_cancel /\ ~Done(tasks[t])

(* C10: in every quiescent state (no created-but-unstarted task, no
   cancellation pending) a motor's is_running is True iff a run_at_speed loop
   for that motor is live. *)
C10_RunningIffLiveLoop ==
    ( /\ \A t \in DOMAIN tasks : tasks[t].st # "new"
      /\ \A t \in DOMAIN tasks : tasks[t].must_cancel => Done(tasks[t]) ) =>
        \A m \in Motors : motor[m].is_running <=> LiveLoops(m) # {}

\* the tasks of motor m that a call with a speed inside the deadzone created
DeadzoneTasks(m) == {t \in RunTasks(m) : Abs(tasks[t].speed) < RunDeadzone}

(* C11: a run_at_speed task created with |speed| < 0.1 never steps, and when
   it has run the motor has is_running = False, current_speed = 0.0 and its
   four coils low, whatever the motor was doing before. *)
C11_DeadzoneStops ==
    /\ \A m \in Motors : \A t \in DeadzoneTasks(m) : ~tasks[t].stepped
    /\ \A m \in Motors : \A t \in DeadzoneTasks(m) :
          (ev.task = t /\ tasks[t].st = "done") => Idle(m)

\* a deadzone task has just run on a motor that an earlier loop, since
\* cancelled, had been stepping
C11_Witness ==
    /\ ev.op = "deadzone"
    /\ \E u \in RunTasks(ev.motor) :
          u < ev.task /\ tasks[u].stepped /\ tasks[u].st = "cancelled"

\* the task that the controller tracks for motor m has started and no later
\* call has cancelled it
StartedTracked(m) ==
    /\ ctl_task[m] # None
    /\ tasks[ctl_task[m]].st # "new"
    /\ ~tasks[ctl_task[m]].must_cancel

(* C12: for 0.1 <= |speed| <= 1.0, boundary included, once the task created by
   set_tank_drive has started the motor has current_speed = speed and
   is_running = True, and its loop stays live until a later call supersedes
   it. *)
C12_RunsAtRequestedSpeed ==
    \A m \in Motors :
        ( /\ StartedTracked(m)
          /\ Abs(tasks[ctl_task[m]].speed) >= RunDeadzone
          /\ Abs(tasks[ctl_task[m]].speed) <= 100 ) =>
            /\ motor[m].current_speed = tasks[ctl_task[m]].speed
            /\ motor[m].is_running
            /\ ctl_task[m] \in LiveLoops(m)

\* the pair the specification gives for a command
C13_Pair(cmd) ==
    CASE cmd = "forward"  -> <<100, 100>>
      [] cmd = "backward" -> <<-100, -100>>
      [] cmd = "left"     -> <<-50, 50>>
      [] cmd = "right"    -> <<50, -50>>
      [] cmd = "stop"     -> <<0, 0>>

(* C13: execute_command maps forward, backward, left, right and stop to
   (1.0, 1.0), (-1.0, -1.0), (-0.5, 0.5), (0.5, -0.5) and (0.0, 0.0): when the
   call was made with nothing pending and every task has run since, with no
   other call, the two motors' current_speed are the mapped pair. *)
C13_CommandMapping ==
    ( /\ hist # <<>>
      /\ LastCall.op = "execute_command"
      /\ LastCall.cmd \in MotionCommands \cup {"stop"}
      /\ LastCall.q
      /\ Quiescent ) =>
        /\ motor["left"].current_speed = C13_Pair(LastCall.cmd)[1]
        /\ motor["right"].current_speed = C13_Pair(LastCall.cmd)[2]

\* a turn command, given while both motors ran another way, has taken effect
C13_Witness ==
    /\ Len(hist) = 2
    /\ hist[1].op = "set_tank_drive" /\ hist[1].l = 50
    /\ LastCall.op = "execute_command" /\ LastCall.cmd = "left" /\ LastCall.q
    /\ Quiescent
    /\ motor["left"].is_running /\ motor["left"].current_speed = -50

\* the last call is stop(), or set_tank_drive(0.0, 0.0)
LastCallHalts ==
    /\ hist # <<>>
    /\ \/ LastCall.op = "stop"
       \/ LastCall.op = "set_tank_drive" /\ LastCall.l = 0 /\ LastCall.r = 0

(* C14: from any reachable state, stop() and set_tank_drive(0.0, 0.0) both
   lead, after quiescence, to the same motor state: no live loop,
   is_running = False, current_speed = 0.0, coils low, step index as it was
   at the call; and a second stop() changes nothing the first left. *)
C14_StopEqualsZeroDrive ==
    /\ []( (LastCallHalts /\ Quiescent) =>
              \A m \in Motors :
                  /\ Idle(m)
                  /\ LiveLoops(m) = {}
                  /\ motor[m].current_step = LastCall.step[m] )
    /\ [][ (ev.op = "stop" /\ ev'.op = "stop") =>
              /\ motor' = motor
              /\ tasks' = tasks
              /\ ready' = ready
              /\ ctl_task' = ctl_task ]_vars

(* C15: a motor's current_speed is within [-1.0, 1.0] in every reachable
   state, whether the speed came through a tank_drive message or through
   set_tank_drive / run_at_speed directly. *)
C15_SpeedWithinRange ==
    \A m \in Motors :
        motor[m].current_speed >= -100 /\ motor[m].current_speed <= 100

\* the floor the specification sets on the per-step delay: 3 ms, in microseconds
MIN_DELAY == 3000

(* C16: for every speed that starts a stepping loop, the per-step delay of
   run_at_speed is max(MIN_DELAY, BASE_DELAY / |speed|), so never below
   MIN_DELAY, full speed included. *)
C16_DelayFloor ==
    \A t \in DOMAIN tasks :
        (tasks[t].coro = "run_at_speed" /\ tasks[t].stepped) =>
            /\ Delay(tasks[t].speed) =
                  Max(MIN_DELAY, (base_delay * 100) \div Abs(tasks[t].speed))
            /\ Delay(tasks[t].speed) >= MIN_DELAY

\* the index after one step from i: the next one round the eight, either way
NextRound(i, direction) ==
    IF direction = 1 THEN (IF i = 7 THEN 0 ELSE i + 1)
                     ELSE (IF i = 0 THEN 7 ELSE i - 1)

\* the direction in which task t steps
DirectionOf(t) == IF tasks[t].speed > 0 THEN 1 ELSE -1

(* C17: step(direction), for direction +1 or -1 and any current index, sets
   current_step to (current_step + direction) mod 8 and outputs the
   STEP_SEQUENCE entry at the new index: +1 from 7 gives 0, -1 from 0
   gives 7. *)
C17_StepAdvances ==
    /\ [](\A i \in 0..7 : \A direction \in {1, -1} :
            StepIndex(i, direction) = NextRound(i, direction))
    /\ [][ev'.op = "step" =>
            /\ motor'[ev'.motor].current_step =
                  NextRound(motor[ev'.motor].current_step, DirectionOf(ev'.task))
            /\ motor'[ev'.motor].pins =
                  STEP_SEQUENCE[motor'[ev'.motor].current_step + 1]]_vars

\* a forward step has just wrapped from index 7 to index 0
C17_Witness ==
    /\ ev.op = "step"
    /\ tasks[ev.task].speed > 0
    /\ motor[ev.motor].current_step = 0

(* C18: each motor's current_step is always in [0, 8); it changes only when
   that motor performs a step, by +1 or -1 modulo 8, once per pattern write,
   and is never reset or skipped when a loop is cancelled or replaced. *)
C18_IndexStepsByOne ==
    /\ [](\A m \in Motors : motor[m].current_step \in 0..7)
    /\ [][\A m \in Motors :
            IF ev'.op = "step" /\ ev'.motor = m
            THEN motor'[m].current_step \in
                    {NextRound(motor[m].current_step, 1),
                     NextRound(motor[m].current_step, -1)}
            ELSE motor'[m].current_step = motor[m].current_step]_vars

\* a loop that replaced a cancelled one has stepped on from the index the
\* cancelled loop had reached
C18_Witness ==
    /\ ev.op = "step"
    /\ motor[ev.motor].current_step \in {2, 6}
    /\ \E u \in RunTasks(ev.motor) :
          u < ev.task /\ tasks[u].stepped /\ tasks[u].st = "cancelled"

\* what a single motor does: a step, a failed step, a loop exit, the
\* deadzone stop, the end of a cancelled loop
MotorOps == {"step", "raise", "exit", "deadzone", "cancelled"}

(* C19: the two motors write to disjoint pin sets and share no mutable state:
   a step, stop or loop exit of one motor leaves the other motor's pins,
   current_step, is_running and current_speed unchanged. *)
C19_MotorsIndependent ==
    /\ []({PinsOf("left")[k] : k \in 1..4} \cap {PinsOf("right")[k] : k \in 1..4} = {})
    /\ [][(ev'.op \in MotorOps /\ ev'.motor \in Motors) =>
            \A o \in Motors \ {ev'.motor} : motor'[o] = motor[o]]_vars

\* one motor has just stepped while the other was running with coils energized
C19_Witness ==
    /\ ev.op = "step"
    /\ \E o \in Motors \ {ev.motor} :
          motor[o].is_running /\ motor[o].pins # Low /\ motor[o].current_step # 0

\* the nudges of the d-pad directions pressed in frame data
PressedNudges(data) ==
    (IF data.dpad.up THEN {MoveRover(32, 32)} ELSE {})
    \cup (IF data.dpad.down THEN {MoveRover(-32, -32)} ELSE {})
    \cup (IF data.dpad.left THEN {MoveRover(-32, 32)} ELSE {})
    \cup (IF data.dpad.right THEN {MoveRover(32, -32)} ELSE {})

(* C20: within one controller_data frame, button A results in stop_motors and
   starts no motor thread whatever else the frame holds; otherwise B or X
   results in the full forward / backward move whatever the d-pad and sticks
   hold; otherwise a pressed d-pad direction results in its nudge whatever the
   sticks hold; the sticks decide only when no button and no direction is
   pressed. *)
C20_FramePriority ==
    /\ [](frame # NoFrame =>
            /\ frame.buttons.A => result = StopMotors
            /\ (~frame.buttons.A /\ (frame.buttons.B \/ frame.buttons.X)) =>
                  result = IF frame.buttons.B THEN MoveRover(128, 128)
                                              ELSE MoveRover(-128, -128)
            /\ (~frame.buttons.A /\ ~frame.buttons.B /\ ~frame.buttons.X
                   /\ PressedNudges(frame) # {}) =>
                  result \in PressedNudges(frame))
    /\ [][handler[1].op = "stop_motors" => Len(thr') = Len(thr)]_vars

\* a frame with A pressed together with B, a d-pad direction and a stick at
\* full deflection has been answered with stop_motors
C20_Witness ==
    /\ frame # NoFrame
    /\ frame.buttons.A /\ frame.buttons.B /\ frame.dpad.up
    /\ frame.leftY = -100
    /\ result = StopMotors

(* C21: when a stop request and a motion request are handled concurrently the
   stop wins: once both handlers have returned, no move_motor thread is alive
   and all eight coil pins are low. *)
C21_StopWinsRace ==
    (\A h \in Handlers : handler[h] = IdleHandler) =>
        /\ \A m \in Motors : AliveThreads(m) = {}
        /\ \A m \in Motors : gpio[m] = Low

\* a frame was received with no button and no d-pad direction pressed
StickFrame ==
    /\ frame # NoFrame
    /\ ~frame.buttons.A /\ ~frame.buttons.B /\ ~frame.buttons.X
    /\ ~DpadPressed(frame)

\* move_rover(l, r) if either count is significant, else no call
IfSignificant(l, r) == IF Abs(l) > 5 \/ Abs(r) > 5 THEN MoveRover(l, r) ELSE Nothing

\* int(apply_deadzone(value) * MAX_SPEED_STEPS)
AxisSteps(value) == Trunc(ApplyDeadzone(value) * 200, 80)

(* C22: for a frame with no button and no d-pad direction, leftTrigger > 0.5
   selects arcade mode, computed from leftY and leftX only; otherwise, exactly
   0.5 included, tank mode: left from apply_deadzone(leftY), right from
   apply_deadzone(rightY), both X axes ignored. *)
C22_ModeSelection ==
    StickFrame =>
        IF frame.leftTrigger > 50
        THEN /\ \A y \in StickValues : \A x \in {0, -100} :
                   HandleControllerData([frame EXCEPT !.rightY = y, !.rightX = x]) = result
             /\ frame.leftX = 0 =>
                   result = IfSignificant(AxisSteps(frame.leftY), AxisSteps(frame.leftY))
             /\ frame.leftY = 0 =>
                   result = IfSignificant(AxisSteps(frame.leftX), -AxisSteps(frame.leftX))
        ELSE /\ result = IfSignificant(AxisSteps(frame.leftY), AxisSteps(frame.rightY))
             /\ \A x1 \in StickValues : \A x2 \in {0, -100} :
                   HandleControllerData([frame EXCEPT !.leftX = x1, !.rightX = x2]) = result

\* a frame with the trigger at exactly 0.5 and the sticks apart was handled in
\* tank mode
C22_Witness ==
    /\ StickFrame
    /\ frame.leftTrigger = 50
    /\ frame.leftY = -100 /\ frame.rightY = 40 /\ frame.leftX = -100
    /\ result = MoveRover(-200, 50)

\* the arcade normalisation was applied to powers of which one exceeded 1.0
ArcadeOver ==
    /\ call.fn = "arcade"
    /\ Max(Abs(call.forward + call.turn), Abs(call.forward - call.turn)) > 80

(* C23: in arcade mode, with left_power = forward + turn and
   right_power = forward - turn: if the larger magnitude exceeds 1.0 both are
   divided by it, so that both magnitudes are at most 1.0, the larger is
   exactly 1.0 and the left : right ratio is unchanged; otherwise both are
   left as they are.  forward 0.9, turn 0.3 gives left 1.0, right 0.5. *)
C23_ArcadeNormalisation ==
    call.fn = "arcade" =>
        /\ Abs(ret.left) <= ret.over /\ Abs(ret.right) <= ret.over
        /\ ret.left * (call.forward - call.turn) = ret.right * (call.forward + call.turn)
        /\ IF ArcadeOver
           THEN Max(Abs(ret.left), Abs(ret.right)) = ret.over
           ELSE /\ ret.left * 80 = (call.forward + call.turn) * ret.over
                /\ ret.right * 80 = (call.forward - call.turn) * ret.over
        /\ (call.forward = 72 /\ call.turn = 24) =>
              (ret.left = ret.over /\ 2 * ret.right = ret.over)

\* forward 0.9 with turn 0.3 was normalised
C23_Witness ==
    /\ call.fn = "arcade" /\ call.forward = 72 /\ call.turn = 24
    /\ ArcadeOver
    /\ ret.left = 96 /\ ret.over = 96

Sign(x) == IF x > 0 THEN 1 ELSE IF x < 0 THEN -1 ELSE 0

(* C24: apply_deadzone(v, dz) returns 0 when |v| < dz and
   sign(v) * (|v| - dz) / (1 - dz) otherwise, for every dz in (0, 1);
   apply_deadzone(dz, dz) = 0, apply_deadzone(1.0, dz) = 1.0 and
   apply_deadzone(-1.0, dz) = -1.0. *)
C24_DeadzoneFormula ==
    call.fn = "apply_deadzone" =>
        /\ ret.over = 100 - call.deadzone
        /\ ret.num = IF Abs(call.value) < call.deadzone THEN 0
                     ELSE Sign(call.value) * (Abs(call.value) - call.deadzone)
        /\ call.value = call.deadzone => ret.num = 0
        /\ call.value = 100 => ret.num = ret.over
        /\ call.value = -100 => ret.num = -ret.over

\* apply_deadzone(-1.0, 0.95) has returned -1.0
C24_Witness ==
    /\ call.fn = "apply_deadzone" /\ call.value = -100 /\ call.deadzone = 95
    /\ ret.num = -5 /\ ret.over = 5

(* C25: apply_deadzone is monotonic non-decreasing in its input: for every dz
   in (0, 1) and all a <= b in [-1, 1],
   apply_deadzone(a, dz) <= apply_deadzone(b, dz), across the deadzone
   boundaries at -dz and +dz too. *)
C25_DeadzoneMonotonic ==
    call.fn = "apply_deadzone" =>
        \A a \in ValueInputs :
            a <= call.value => ApplyDeadzoneOf(a, call.deadzone) <= ret.num

\* apply_deadzone was applied on the lower boundary -dz, with values below it,
\* inside the deadzone and above it to compare with
C25_Witness ==
    /\ call.fn = "apply_deadzone" /\ call.value = -20 /\ call.deadzone = 20
    /\ ret.num = 0
    /\ ApplyDeadzoneOf(-25, 20) < 0

\* the step counts the joystick branch computes for the frame received
FrameSteps == IF frame.leftTrigger > 50 THEN ArcadeSteps(frame) ELSE TankSteps(frame)

\* 5% of the maximum speed, in steps
InsignificantBelow == (5 * MAX_SPEED_STEPS) \div 100

(* C26: a joystick frame whose left and right speeds are both below 5% of the
   maximum speed is no motion request: move_rover is not called; a frame with
   either speed at or above that threshold does call move_rover. *)
C26_InsignificantIgnored ==
    StickFrame =>
        IF /\ Abs(FrameSteps[1]) < InsignificantBelow
           /\ Abs(FrameSteps[2]) < InsignificantBelow
        THEN result = Nothing
        ELSE result = MoveRover(FrameSteps[1], FrameSteps[2])

\* the frame with every key it lacks filled in: buttons and d-pad directions
\* not pressed, axes and trigger at rest
WithDefault(d, k, v) == IF Has(d, k) THEN d[k] ELSE v

Completed(data) ==
    LET b == WithDefault(data, "buttons", << >>)
        p == WithDefault(data, "dpad", << >>)
    IN  [buttons |-> [A |-> WithDefault(b, "A", FALSE),
                      B |-> WithDefault(b, "B", FALSE),
                      X |-> WithDefault(b, "X", FALSE)],
         dpad |-> [up |-> WithDefault(p, "up", FALSE),
                   down |-> WithDefault(p, "down", FALSE),
                   left |-> WithDefault(p, "left", FALSE),
                   right |-> WithDefault(p, "right", FALSE)],
         leftX |-> WithDefault(data, "leftX", 0),
         leftY |-> WithDefault(data, "leftY", 0),
         rightX |-> WithDefault(data, "rightX", 0),
         rightY |-> WithDefault(data, "rightY", 0),
         leftTrigger |-> WithDefault(data, "leftTrigger", 0)]

(* C27: a frame that lacks a field is processed as if the missing field were
   false or 0: the handler makes the call it makes for the same frame with
   the field filled in, so the fields that are present still take effect. *)
C27_MissingFieldsDefault ==
    (prog = "controller_data" /\ frame # NoFrame) =>
        result = HandleControllerData(Completed(frame))

\* shutdown cleanup has run: RoverWebServer.cleanup, the stop_motors() of the
\* finally block of WebRover_3.py
CleanedUp ==
    \/ prog = "rover_server" /\ ev.op = "cleanup"
    \/ prog = "WebRover_3" /\ handler[1] = DownHandler

(* C28: once shutdown cleanup has run, both motors are idle with all eight
   coils low and stay so: no stepping loop is left that writes a pattern. *)
C28_ShutdownLeavesIdle ==
    CleanedUp =>
        IF prog = "rover_server"
        THEN \A m \in Motors : Idle(m) /\ LiveLoops(m) = {}
        ELSE \A m \in Motors : gpio[m] = Low

\* the fields of a motor the program reads back
Fields(M) ==
    [current_step |-> M.current_step, is_running |-> M.is_running,
     current_speed |-> M.current_speed]

(* C29: without hardware (GPIO is None) each motor's current_step, is_running
   and current_speed are, after every step of every sequence of calls, what
   they are with hardware present; its pin writes are discarded, so its pins
   stay as they were. *)
C29_SimulationEquivalent ==
    \A m \in Motors :
        /\ Fields(motor[m].sim) = Fields(motor[m])
        /\ motor[m].sim.pins = Low

\* a motor has stepped and been stopped again, and another is energized
\* where the simulated run has discarded the writes
C29_Witness ==
    /\ prog = "rover_server"
    /\ \E m \in Motors :
          /\ motor[m].pins # Low
          /\ motor[m].sim.current_step # 0
          /\ motor[m].sim.is_running
    /\ \E m \in Motors :
          /\ motor[m].sim.current_step # 0
          /\ ~motor[m].sim.is_running

\* the index in step_sequence of a step pattern
IndexOf(pattern) == CHOOSE i \in 0..7 : step_sequence[i + 1] = pattern

\* cyclically adjacent entries of step_sequence
Adjacent(p, q) == (IndexOf(q) - IndexOf(p) + 8) % 8 \in {1, 7}

\* thread t writes a step pattern in this step
WritesPattern(t) == thr[t].pc = "write" /\ thr'[t].pc = "sleep"

(* C30: a step pattern written to a motor's pins is cyclically adjacent in
   step_sequence to the pattern written to them before it (index +1 or -1
   modulo 8), whichever move wrote that one. *)
C30_PatternsAdjacent ==
    [][\A t \in DOMAIN thr :
          (WritesPattern(t) /\ written[thr[t].m] # Low) =>
              Adjacent(written[thr[t].m], gpio'[thr[t].m])]_vars

(* C31: every step of a run_at_speed(speed) loop moves the motor's
   current_step by sign(speed) modulo 8, +1 for speed > 0 and -1 for
   speed < 0, on the left and on the right motor alike; the speed a loop was
   started with, and so its direction, never changes while the loop exists. *)
C31_DirectionIsSignOfSpeed ==
    /\ [][\A t \in DOMAIN tasks : tasks'[t].speed = tasks[t].speed]_vars
    /\ [][\A m \in Motors :
            (ev'.op = "step" /\ ev'.motor = m) =>
                /\ ev'.task \in RunTasks(m)
                /\ Sign(tasks[ev'.task].speed) # 0
                /\ motor'[m].current_step =
                      (motor[m].current_step + Sign(tasks[ev'.task].speed) + 8) % 8]_vars

\* one loop has stepped backwards twice, through the wrap from 0 to 7, while
\* the other motor's loop stepped forwards
C31_Witness ==
    /\ ev.op = "step"
    /\ tasks[ev.task].speed < 0
    /\ motor[ev.motor].current_step = 6
    /\ \A u \in RunTasks(ev.motor) : u # ev.task => ~tasks[u].stepped
    /\ \E o \in Motors \ {ev.motor} :
          motor[o].current_step \in 1..2 /\ motor[o].current_speed > 0

(* C32: in WebRover_2.py a stop request, from a manual 'stop' command, a
   frame with button A or a client disconnect, completes without error, and
   all eight coil pins are low when stop_motors returns. *)
C32_StopRequestCompletes ==
    (prog = "WebRover_2") =>
        \A h \in Handlers :
            handler[h].op = "stop_motors" =>
                /\ handler[h].pc = "returned"
                /\ \A m \in Motors : gpio[m] = Low

\* stop_motors returns in this step
StopMotorsReturns(h) ==
    handler[h].op = "stop_motors" /\ handler[h].pc = "pins" /\ handler'[h] = IdleHandler

\* thread t ends in this step
ThreadEnds(t) == IsAlive(t) /\ ~IsAlive(t)'

(* C33: with requests handled one after another, when stop_motors returns no
   move_motor thread is alive, current_threads and thread_stop_flags are
   empty and all eight coil pins are low; and a move_motor thread ends by
   setting its own four pins low, whether it ran out of steps or saw its
   stop flag. *)
C33_StopLeavesNothingRunning ==
    /\ [][StopMotorsReturns(1) =>
            /\ \A t \in DOMAIN thr' : ~IsAlive(t)'
            /\ current_threads' = <<>>
            /\ thread_stop_flags' = <<>>
            /\ \A m \in Motors : gpio'[m] = Low]_vars
    /\ [][\A t \in DOMAIN thr :
            ThreadEnds(t) => (thr[t].pc = "off" /\ gpio'[thr[t].m] = Low)]_vars

\* stop_motors has returned after a move of both motors, in which one thread
\* ran out of steps and the other was stopped through its flag after a write
C33_Witness ==
    /\ prog = "WebRover_3"
    /\ wcalls = 2 /\ handler[1] = IdleHandler
    /\ Len(thr) = 2
    /\ \E t, u \in DOMAIN thr :
          /\ thr[t].pc = "dead" /\ thr[t].flag_pc = "dead"
          /\ thr[u].pc = "dead" /\ thr[u].flag_pc = "sleep"
    /\ current_threads = <<>> /\ thread_stop_flags = <<>>
    /\ \A m \in Motors : gpio[m] = Low

(* C34: every move_motor thread that is alive is in current_threads and its
   stop flag is in thread_stop_flags, so that a later stop_motors reaches
   it, however the move_rover and stop_motors callers interleave. *)
C34_NoOrphanThread ==
    \A t \in DOMAIN thr :
        IsAlive(t) =>
            /\ t \in Range(current_threads)
            /\ t \in Range(thread_stop_flags)

\* execute_command returns in this step; its argument
ExecuteCommandReturns == ev'.op = "execute_command" /\ Len(hist') = Len(hist) + 1
CommandGiven == hist'[Len(hist')].cmd

(* C35: when execute_command returns both motors have been stopped, whatever
   the command; for a command outside forward, backward, left, right and
   stop the call does exactly what it does for stop, which is what stop()
   does: no task is created, the tracked loops are cancelled, and, if no
   task was waiting to run when the call was made, both motors are idle with
   coils low and without a live loop once every task has run. *)
C35_UnknownCommandStops ==
    /\ [][ExecuteCommandReturns =>
            /\ \A m \in Motors : Idle(m)'
            /\ CommandGiven \notin {"forward", "backward", "left", "right"} =>
                  /\ Len(tasks') = Len(tasks)
                  /\ tasks' = StopCancelOn(Ctl).tasks
                  /\ ready' = StopCancelOn(Ctl).ready
                  /\ ctl_task' = ctl_task
                  /\ motor' = [m \in Motors |-> MotorStop(motor[m])]]_vars
    /\ []( ( /\ hist # <<>>
             /\ LastCall.op = "execute_command"
             /\ LastCall.cmd \notin {"forward", "backward", "left", "right"}
             /\ LastCall.q
             /\ Quiescent ) =>
                \A m \in Motors : Idle(m) /\ LiveLoops(m) = {} )

\* a command the chain does not know has just interrupted a loop that had
\* been stepping
C35_Witness ==
    /\ ev.op = "execute_command"
    /\ LastCall.cmd = "other"
    /\ \E t \in DOMAIN tasks :
          tasks[t].stepped /\ tasks[t].must_cancel /\ ~Done(tasks[t])
    /\ \A m \in Motors : Idle(m) /\ motor[m].current_step # 0

(* C36: run_at_speed evaluates base_delay / |speed| only for |speed| >= 0.1,
   so never with a zero divisor; the delay of a loop that starts is at most
   10 times base_delay, and a larger |speed| never gives a longer delay. *)
C36_DelayBounded ==
    call.fn = "run_at_speed" =>
        /\ ret.divides <=> Abs(call.speed) >= 10
        /\ ret.divides =>
              /\ call.speed # 0
              /\ ret.delay <= 10 * base_delay
              /\ \A s \in SpeedInputs :
                    (Abs(s) >= 10 /\ Abs(s) <= Abs(call.speed)) =>
                        (base_delay * 100) \div Abs(s) >= ret.delay
              /\ \A s \in SpeedInputs :
                    (Abs(s) >= 2 * Abs(call.speed)) =>
                        (base_delay * 100) \div Abs(s) < ret.delay

\* run_at_speed(-0.1), on the edge of the deadzone, has computed the longest
\* delay there is
C36_Witness ==
    /\ call.fn = "run_at_speed" /\ call.speed = -10
    /\ ret.divides /\ ret.delay = 10 * base_delay

\* the joystick branch has called move_rover
JoystickMoves == call.fn = "joystick" /\ ret.moves

(* C37, as the specification states it: the step counts passed to move_rover
   are at most MAX_SPEED_STEPS in magnitude, and each has the sign of the
   corresponding normalized power. *)
C37_StepsHaveSignOfPower ==
    JoystickMoves =>
        /\ Abs(ret.left_steps) <= MAX_SPEED_STEPS
        /\ Abs(ret.right_steps) <= MAX_SPEED_STEPS
        /\ Sign(ret.left_steps) = Sign(ret.power.left)
        /\ Sign(ret.right_steps) = Sign(ret.power.right)

(* C37, amended: the step counts passed to move_rover are at most
   MAX_SPEED_STEPS in magnitude; each is 0 if the magnitude of its
   normalized power is below 1 / MAX_SPEED_STEPS and has the sign of that
   power otherwise. *)
C37_StepsBoundedSignKept ==
    JoystickMoves =>
        /\ Abs(ret.left_steps) <= MAX_SPEED_STEPS
        /\ Abs(ret.right_steps) <= MAX_SPEED_STEPS
        /\ IF Abs(ret.power.left) * MAX_SPEED_STEPS < ret.power.over
           THEN ret.left_steps = 0
           ELSE Sign(ret.left_steps) = Sign(ret.power.left)
        /\ IF Abs(ret.power.right) * MAX_SPEED_STEPS < ret.power.over
           THEN ret.right_steps = 0
           ELSE Sign(ret.right_steps) = Sign(ret.power.right)

\* arcade mode, full forward with a turn just beyond the deadzone: the powers
\* were normalized, one motor got the maximum and the other fewer steps
C37_Witness ==
    /\ JoystickMoves
    /\ call.mode = "arcade" /\ call.a = 1000 /\ call.b = 203
    /\ ret.power.over > Unit - FineDeadzone
    /\ ret.left_steps = MAX_SPEED_STEPS
    /\ ret.right_steps > 0 /\ ret.right_steps < MAX_SPEED_STEPS

\* handler h is inside stop_all_threads
InStopAllThreads(h) == handler[h].pc \in {"flags", "join", "clear"}

\* thread t was started and has ended
Ended(t) == t \in DOMAIN thr /\ ~IsAlive(t)

(* C38: a move_motor thread started by move_rover writes at most
   8 * |steps| patterns and terminates, whether or not a stop is requested,
   and a call of stop_all_threads always returns. *)
C38_ThreadsEndStopReturns ==
    /\ [](\A t \in DOMAIN nwrites :
            nwrites[t].writes <= 8 * Abs(nwrites[t].steps))
    /\ \A t \in ThreadIds : (t \in DOMAIN thr) ~> Ended(t)
    /\ InStopAllThreads(1) ~> ~InStopAllThreads(1)

\* a thread created for two steps has ended, never asked to stop, after
\* sixteen pattern writes; an earlier one was stopped before its eighth
\* write by the stop_all_threads of the second call, which has returned
C38_Witness ==
    /\ handler[1].op = "idle" /\ wcalls = 2
    /\ \E t \in DOMAIN thr :
          /\ Ended(t) /\ ~thr[t].stop
          /\ Abs(nwrites[t].steps) = 2 /\ nwrites[t].writes = 16
    /\ \E u \in DOMAIN thr :
          Ended(u) /\ thr[u].stop /\ nwrites[u].writes < 8

====
